---- MODULE Spec2Model ----
(***************************************************************************)
(* Model of sadasadam: the retry-aware download-and-extract loop of        *)
(* download.py and the postprocessing pipeline of force.py / indices.py.   *)
(***************************************************************************)
EXTENDS Integers, Sequences, FiniteSets, TLC

\* ------------------------------------------------------------------ bounds
\* largest positive max_tries explored
MaxTries == 2
\* rounds after which a loop that does not stop by itself is cut off
RoundCap == 3
\* number of same-day mosaics (tile, sensor) the mosaic directory can hold
NumTiles == 2
\* number of bands of a surface-reflectance raster
NumBands == 2

\* ------------------------------------------------------ download.py: names
\* A directory entry name is  stem "." ext[1] "." ext[2] ...  (ext may be empty).
S2Stems == {"S2A_1"}
LandsatStems == {"LC08_1"}

ZipName(s) == [stem |-> s, ext |-> <<"SAFE", "zip">>]
SafeName(s) == [stem |-> s, ext |-> <<"SAFE">>]
TarName(s) == [stem |-> s, ext |-> <<"tar", "gz">>]
PlainName(s) == [stem |-> s, ext |-> <<>>]

Names == {ZipName(s) : s \in S2Stems} \cup {SafeName(s) : s \in S2Stems}
         \cup {TarName(s) : s \in LandsatStems} \cup {PlainName(s) : s \in LandsatStems}

\* str.endswith("." + suf[1] + "." + suf[2] ...)
EndsWith(name, suf) ==
    /\ Len(name.ext) >= Len(suf)
    /\ SubSeq(name.ext, Len(name.ext) - Len(suf) + 1, Len(name.ext)) = suf

\* os.path.join(directory, file.split(".")[0])
Split0(name) == [stem |-> name.stem, ext |-> <<>>]

\* the tuple of suffixes the scan looks at
MatchesScan(name) ==
    \/ EndsWith(name, <<"SAFE", "zip">>)
    \/ EndsWith(name, <<"tar", "gz">>)
    \/ EndsWith(name, <<"SAFE">>)

\* ---------------------------------------------------- directory entries
Absent == [kind |-> "none", health |-> "ok"]
File(h) == [kind |-> "file", health |-> h]
Dir(h) == [kind |-> "dir", health |-> h]

EmptyDir == [n \in Names |-> Absent]

\* os.listdir(directory)
ListDir(d) == {n \in Names : d[n].kind # "none"}

\* os.remove(path) succeeds on a plain file only; it raises on a directory
\* (IsADirectoryError) and on a missing path (FileNotFoundError)
OsRemoveOk(d, f) == d[f].kind = "file"

\* ------------------------------------------------ the products of main
Products == <<"S2_MSI_L1C", "LANDSAT_C2L1">>

StemsOf(p) == IF p = "S2_MSI_L1C" THEN S2Stems ELSE LandsatStems

ZipHealth == {"ok", "badcrc", "badunpack", "notzip"}
TarHealth == {"ok", "badunpack"}

\* what dag.download_all can leave in download_dir for one scene of a family
Skip == [ext |-> <<>>, entry |-> Absent]
Options(p) ==
    IF p = "S2_MSI_L1C"
    THEN {[ext |-> <<"SAFE", "zip">>, entry |-> File(h)] : h \in ZipHealth}
         \cup {[ext |-> <<"SAFE">>, entry |-> File("ok")],
               [ext |-> <<"SAFE">>, entry |-> Dir("ok")],
               [ext |-> <<"SAFE">>, entry |-> Dir("unlistable")]}
         \cup {Skip}
    ELSE {[ext |-> <<"tar", "gz">>, entry |-> File(h)] : h \in TarHealth}
         \cup {Skip}

\* the directory after download_all wrote choice[s] for every scene s of family p
\* (a transfer never replaces an existing directory)
DownloadAll(d, p, choice) ==
    [n \in Names |->
        IF /\ n.stem \in StemsOf(p)
           /\ choice[n.stem].entry.kind # "none"
           /\ choice[n.stem].ext = n.ext
           /\ d[n].kind # "dir"
        THEN choice[n.stem].entry
        ELSE d[n]]

\* -------------------------------- extract_and_delete_tar_gz_files, one file
\* The result of one iteration of the for loop:
\*   dir      the directory afterwards
\*   appended the path was appended to corrupt_files
\*   raised   an exception left the function (raised inside the except block)
\*   unpack   shutil.unpack_archive was called on the path
\*   outcome  what happened, for the record of the scan
\*   warned   a warning was printed
Result(d, app, r, u, o, w) ==
    [dir |-> d, appended |-> app, raised |-> r, unpack |-> u, outcome |-> o, warned |-> w]

\* the except block: append, os.remove(file_path), rmtree(landsat_extract_dir)
RemoveInHandlerBroken(d, f) == d
RemoveInHandler(d, f) == [d EXCEPT ![f] = Absent]

RmtreeBroken(d, ldir) == d
Rmtree(d, ldir) == [d EXCEPT ![ldir] = Absent]

Handler(d, f, hasLdir, u, o) ==
    IF ~OsRemoveOk(d, f)
    THEN Result(d, TRUE, TRUE, u, o, TRUE)
    ELSE LET d1 == RemoveInHandler(d, f)
             d2 == IF hasLdir THEN Rmtree(d1, Split0(f)) ELSE d1
         IN Result(d2, TRUE, FALSE, u, o, TRUE)

\* line 119 reached without exception: os.remove(file_path); a failure of it is
\* caught by the same except block
RemoveAfter(d, f, hasLdir, app, u, o, w) ==
    IF OsRemoveOk(d, f)
    THEN Result([d EXCEPT ![f] = Absent], app, FALSE, u, o, w)
    ELSE LET h == Handler(d, f, hasLdir, u, o)
         IN [h EXCEPT !.appended = TRUE]

ProcessTarGz(d, f) ==
    LET ldir == Split0(f) IN
    IF d[ldir].kind = "file"
    THEN \* os.makedirs(exist_ok=True) raises; landsat_extract_dir is still None
         Handler(d, f, FALSE, FALSE, "makedirs_failed")
    ELSE LET d1 == [d EXCEPT ![ldir] = IF @.kind = "dir" THEN @ ELSE Dir("ok")] IN
         IF d1[f].kind = "file" /\ d1[f].health = "ok"
         THEN RemoveAfter(d1, f, TRUE, FALSE, TRUE, "unpacked", FALSE)
         ELSE Handler(d1, f, TRUE, TRUE, "unpack_failed")

\* the .SAFE directory a zip unpacks to; unpacking over a plain file fails
UnpackZipOk(d, f) ==
    /\ d[f].health = "ok"
    /\ d[SafeName(f.stem)].kind # "file"

UnpackAfterBadTestzipKept(d, f) == TRUE
\* the value of unpack after a failed testzip (lines 102-105 set unpack = False)
UnpackAfterBadTestzip(d, f) == FALSE

ProcessZip(d, f, partial) ==
    LET safe == SafeName(f.stem)
        extracted == [d EXCEPT ![safe] = IF @.kind = "dir" THEN @ ELSE Dir("ok")]
    IN
    IF d[f].kind # "file" \/ d[f].health = "notzip"
    THEN \* zipfile.ZipFile raises
         Handler(d, f, FALSE, FALSE, "notzip")
    ELSE IF d[f].health = "badcrc"
    THEN IF UnpackAfterBadTestzip(d, f)
         THEN RemoveAfter(extracted, f, FALSE, TRUE, TRUE, "testzip_bad", TRUE)
         ELSE RemoveAfter(d, f, FALSE, TRUE, FALSE, "testzip_bad", TRUE)
    ELSE IF UnpackZipOk(d, f)
    THEN RemoveAfter(extracted, f, FALSE, FALSE, TRUE, "unpacked", FALSE)
    ELSE \* unpack_archive raises, possibly after writing part of the .SAFE tree
         Handler(IF partial /\ d[safe].kind = "none" THEN extracted ELSE d,
                 f, FALSE, TRUE, "unpack_failed")

ProcessSafe(d, f) ==
    IF d[f].kind = "dir" /\ d[f].health = "ok"
    THEN \* os.listdir succeeds, unpack = False, then os.remove(file_path)
         RemoveAfter(d, f, FALSE, FALSE, FALSE, "listed", FALSE)
    ELSE \* os.listdir raises
         Handler(d, f, FALSE, FALSE, "list_failed")

ProcessFile(d, f, partial) ==
    IF EndsWith(f, <<"tar", "gz">>) THEN ProcessTarGz(d, f)
    ELSE IF EndsWith(f, <<"SAFE", "zip">>) THEN ProcessZip(d, f, partial)
    ELSE ProcessSafe(d, f)

NoEvents == [n \in Names |-> "none"]

\* ------------------------------------------------- download_and_extract
\* the function has no return statement: its value is None
NoneValue == [none |-> TRUE, value |-> <<>>]
Returned(list) == [none |-> FALSE, value |-> list]
ReturnValueList(corrupt) == Returned(corrupt)
ReturnValue(corrupt) == NoneValue

\* line 157
StopOnEmptyNever(corrupt) == FALSE
StopOnEmpty(corrupt) == Len(corrupt) = 0

\* line 160
ReachedMaxLate(c, m) == c > m
ReachedMax(c, m) == c = m

\* nothing catches an exception of dag.search / dag.download_all
AfterAdapterErrorRetry == "looptest"
AfterAdapterError == "raised"

TriesValues == {0 - 1, 0} \cup (1 .. MaxTries)

VARIABLES
    max_tries,      \* the parameter
    pc,             \* position in download_and_extract
    prod,           \* index into products of the family being downloaded
    run_download,
    count,
    dir,            \* download_dir: Names -> entry
    todo,           \* entries of os.listdir(directory) not yet visited
    corrupt_files,
    result,         \* the value download_and_extract returned
    log,            \* kinds of messages printed so far
    \* observers
    rounds,         \* iterations of the while loop started
    scans,          \* calls of extract_and_delete_tar_gz_files
    dlcalls,        \* calls of download_with_eodag
    emptyAt,        \* first round whose scan returned an empty list (0: none)
    events,         \* what the current scan did with each entry
    unpackArgs,     \* paths the current scan passed to shutil.unpack_archive
    removed,        \* paths the current scan deleted
    raisedOn,       \* the path at which the current scan raised, if any
    adapterError,   \* dag.search or dag.download_all raised
    errAt,          \* the counters when it raised
    scen            \* progress of the two-round scenario

dlvars == <<max_tries, pc, prod, run_download, count, dir, todo, corrupt_files,
            result, log, rounds, scans, dlcalls, emptyAt, events, unpackArgs,
            removed, raisedOn, adapterError, errAt, scen>>

VARIABLES
    ppc,                    \* position in postprocess / calculate
    fs,                     \* the paths that exist
    save_qai,               \* the parameter
    qaiSum,                 \* tile -> checksum its clear-sky mask will have
    sums,                   \* mask path -> Band.Checksum()
    bandDesc,               \* raster path -> band descriptions
    clipped_boa_files,
    clipped_qai_files,
    clearsky_files,
    clearsky_cmd_list,
    pending,                \* positions of the running batch not yet finished
    poolError,              \* a task of the running batch wrote an error
    fi,                     \* position of the loop of lines 430-483
    cloudfree_parallel_list,
    boa_input_output,
    index,                  \* CreateIndices.index
    indices_cmd_list,
    printed                 \* the messages postprocess and calculate printed

ppvars == <<ppc, fs, save_qai, qaiSum, sums, bandDesc,
            clipped_boa_files, clipped_qai_files, clearsky_files,
            clearsky_cmd_list, pending, poolError, fi, cloudfree_parallel_list,
            boa_input_output, index, indices_cmd_list, printed>>

VARIABLES
    outdir_exists,          \* the directory CreateIndices is given as outdir exists
    indir_listed            \* calculate has read the listing of indir

ixvars == <<outdir_exists, indir_listed>>

VARIABLES
    download_only,          \* the settings main reads from the configuration
    force_only,
    indices_only,
    remove_force_data,
    clear_download,
    use_param_file,
    indices_list,
    layout,                 \* where output_dir, download_dir and temp_force_dir lie
    mpc,                    \* position in main
    index_i,                \* position of the loop over indices_list
    mfs,                    \* the paths that exist
    trace,                  \* the stages started and returned, in order
    calls                   \* the external-tool invocations made, in order

mnvars == <<download_only, force_only, indices_only, remove_force_data,
            clear_download, use_param_file, indices_list, layout, mpc, index_i,
            mfs, trace, calls>>

VARIABLES
    clock,                  \* the second datetime.now() is in
    tmp,                    \* the directories that exist under temp_dir
    rpc,                    \* run -> position in ForceProcess.__init__
    now_time_str,           \* run -> the time stamp it formatted
    subdir,                 \* run -> the sub-directory it is creating
    made                    \* run -> the directories its os.makedirs created

fdvars == <<clock, tmp, rpc, now_time_str, subdir, made>>

VARIABLES
    total_count,            \* the number of matches dag.search reports
    spc,                    \* position in download_with_eodag
    pages,                  \* the local pages
    page,                   \* the loop variable i
    total_search_results,   \* the pages appended so far
    download_all_arg        \* the list passed to dag.download_all

swvars == <<total_count, spc, pages, page, total_search_results, download_all_arg>>

VARIABLES
    cloud_buffer,           \* the argument cloud_buffer
    n_procs,                \* the argument n_procs
    cpc,                    \* position in create_force_level2_config_file
    config_file_dummy,      \* the lines of l2ps_dummy.prm
    line_no,                \* the line the for loop is at
    updated_conf,           \* the local updated_conf, line by line
    config_file             \* the lines of l2ps.prm

cfvars == <<cloud_buffer, n_procs, cpc, config_file_dummy, line_no, updated_conf,
            config_file>>

VARIABLES
    qai_value,              \* the quality-flag value of a pixel of A
    mask_value,             \* the value gdal_calc.py writes for that pixel
    mkpc                    \* whether the mask expression was evaluated

mkvars == <<qai_value, mask_value, mkpc>>

vars == <<dlvars, ppvars, ixvars, mnvars, fdvars, swvars, cfvars, mkvars>>

\* what the download loop, postprocess and calculate leave alone
outsideDownload == <<ppvars, ixvars, mnvars, fdvars, swvars, cfvars, mkvars>>
outsidePost == <<dlvars, mnvars, fdvars, swvars, cfvars, mkvars>>

Counters == [rounds |-> rounds, scans |-> scans, dlcalls |-> dlcalls, prod |-> prod]

InSeq(x, s) == \E i \in 1 .. Len(s) : s[i] = x

\* the two-round scenario: round 1 delivers a corrupt zip and a good tar,
\* round 2 delivers the zip again, valid, and no other corrupt archive
ScenNext(sc, r, p, choice) ==
    IF sc = "start" /\ r = 1 /\ p = "S2_MSI_L1C"
       /\ \A s \in S2Stems : choice[s].ext = <<"SAFE", "zip">>
                              /\ choice[s].entry.health \in {"badcrc", "notzip"}
    THEN "r1a"
    ELSE IF sc = "r1a" /\ r = 1 /\ p = "LANDSAT_C2L1"
       /\ \A s \in LandsatStems : choice[s] = [ext |-> <<"tar", "gz">>, entry |-> File("ok")]
    THEN "r1"
    ELSE IF sc = "r1" /\ r = 2 /\ p = "S2_MSI_L1C"
       /\ \A s \in S2Stems : choice[s] = [ext |-> <<"SAFE", "zip">>, entry |-> File("ok")]
    THEN "r2a"
    ELSE IF sc = "r2a" /\ r = 2 /\ p = "LANDSAT_C2L1"
       /\ \A s \in LandsatStems :
             choice[s] \in {Skip, [ext |-> <<"tar", "gz">>, entry |-> File("ok")]}
    THEN "r2"
    ELSE "off"

DlInit ==
    /\ max_tries \in TriesValues
    /\ pc = "looptest"
    /\ prod = 1
    /\ run_download = TRUE
    /\ count = 0
    /\ dir = EmptyDir
    /\ todo = {}
    /\ corrupt_files = <<>>
    /\ result = NoneValue
    /\ log = {}
    /\ rounds = 0
    /\ scans = 0
    /\ dlcalls = 0
    /\ emptyAt = 0
    /\ events = NoEvents
    /\ unpackArgs = {}
    /\ removed = {}
    /\ raisedOn = {}
    /\ adapterError = FALSE
    /\ errAt = [rounds |-> 0, scans |-> 0, dlcalls |-> 0, prod |-> 0]
    /\ scen = "start"

\* line 146: while run_download is True
LoopTest ==
    /\ pc = "looptest"
    /\ IF run_download
       THEN /\ rounds < RoundCap
            /\ rounds' = rounds + 1
            /\ prod' = 1
            /\ pc' = "download"
            /\ UNCHANGED result
       ELSE /\ pc' = "done"
            /\ result' = ReturnValue(corrupt_files)
            /\ UNCHANGED <<rounds, prod>>
    /\ UNCHANGED <<max_tries, run_download, count, dir, todo, corrupt_files, log,
                   scans, dlcalls, emptyAt, events, unpackArgs, removed,
                   raisedOn, adapterError, errAt, scen>>
    /\ UNCHANGED outsideDownload

\* lines 147-155: one call of download_with_eodag that returns
DownloadOk ==
    /\ pc = "download"
    /\ \E choice \in [StemsOf(Products[prod]) -> Options(Products[prod])] :
          /\ dir' = DownloadAll(dir, Products[prod], choice)
          /\ scen' = ScenNext(scen, rounds, Products[prod], choice)
    /\ dlcalls' = dlcalls + 1
    /\ log' = log \cup {"found"}
    /\ IF prod < Len(Products)
       THEN prod' = prod + 1 /\ pc' = "download"
       ELSE prod' = prod /\ pc' = "listdir"
    /\ UNCHANGED <<max_tries, run_download, count, todo, corrupt_files, result,
                   rounds, scans, emptyAt, events, unpackArgs, removed,
                   raisedOn, adapterError, errAt>>
    /\ UNCHANGED outsideDownload

\* dag.search raises (raise_errors=True): nothing was written
SearchRaises ==
    /\ pc = "download"
    /\ dlcalls' = dlcalls + 1
    /\ adapterError' = TRUE
    /\ errAt' = [Counters EXCEPT !.dlcalls = dlcalls + 1]
    /\ pc' = AfterAdapterError
    /\ scen' = "off"
    /\ UNCHANGED <<max_tries, prod, run_download, count, dir, todo, corrupt_files,
                   result, log, rounds, scans, emptyAt, events, unpackArgs, removed,
                   raisedOn>>
    /\ UNCHANGED outsideDownload

\* dag.download_all raises, possibly after writing some of the files
DownloadRaises ==
    /\ pc = "download"
    /\ \E choice \in [StemsOf(Products[prod]) -> Options(Products[prod])] :
          dir' = DownloadAll(dir, Products[prod], choice)
    /\ dlcalls' = dlcalls + 1
    /\ log' = log \cup {"found"}
    /\ adapterError' = TRUE
    /\ errAt' = [Counters EXCEPT !.dlcalls = dlcalls + 1]
    /\ pc' = AfterAdapterError
    /\ scen' = "off"
    /\ UNCHANGED <<max_tries, prod, run_download, count, todo, corrupt_files,
                   result, rounds, scans, emptyAt, events, unpackArgs, removed,
                   raisedOn>>
    /\ UNCHANGED outsideDownload

\* lines 71-73: the listing is taken once, before the loop
StartScan ==
    /\ pc = "listdir"
    /\ corrupt_files' = <<>>
    /\ todo' = {n \in ListDir(dir) : MatchesScan(n)}
    /\ scans' = scans + 1
    /\ events' = NoEvents
    /\ unpackArgs' = {}
    /\ removed' = {}
    /\ raisedOn' = {}
    /\ pc' = "scan"
    /\ UNCHANGED <<max_tries, prod, run_download, count, dir, result, log, rounds,
                   dlcalls, emptyAt, adapterError, errAt, scen>>
    /\ UNCHANGED outsideDownload

\* lines 74-126: one iteration of the for loop (os.listdir gives no order)
ScanFile ==
    /\ pc = "scan"
    /\ \E f \in todo, partial \in BOOLEAN :
          LET r == ProcessFile(dir, f, partial) IN
          /\ dir' = r.dir
          /\ corrupt_files' = IF r.appended THEN Append(corrupt_files, f) ELSE corrupt_files
          /\ events' = [events EXCEPT ![f] = r.outcome]
          /\ unpackArgs' = IF r.unpack THEN unpackArgs \cup {f} ELSE unpackArgs
          /\ removed' = removed \cup {n \in Names : dir[n].kind # "none" /\ r.dir[n].kind = "none"}
          /\ log' = IF r.warned THEN log \cup {"unable_retrying"} ELSE log
          /\ todo' = todo \ {f}
          /\ raisedOn' = IF r.raised THEN {f} ELSE raisedOn
          /\ pc' = IF r.raised THEN "raised" ELSE "scan"
    /\ UNCHANGED <<max_tries, prod, run_download, count, result, rounds, scans,
                   dlcalls, emptyAt, adapterError, errAt, scen>>
    /\ UNCHANGED outsideDownload

\* line 128: return corrupt_files
ExtractReturn ==
    /\ pc = "scan"
    /\ todo = {}
    /\ pc' = "scanned"
    /\ emptyAt' = IF emptyAt = 0 /\ corrupt_files = <<>> THEN rounds ELSE emptyAt
    /\ UNCHANGED <<max_tries, prod, run_download, count, dir, todo, corrupt_files,
                   result, log, rounds, scans, dlcalls, events, unpackArgs, removed,
                   raisedOn, adapterError, errAt, scen>>
    /\ UNCHANGED outsideDownload

\* lines 157-161
LoopTail ==
    /\ pc = "scanned"
    /\ count' = count + 1
    /\ run_download' = IF StopOnEmpty(corrupt_files) \/ ReachedMax(count + 1, max_tries)
                       THEN FALSE ELSE run_download
    /\ pc' = "looptest"
    /\ UNCHANGED <<max_tries, prod, dir, todo, corrupt_files, result, log, rounds,
                   scans, dlcalls, emptyAt, events, unpackArgs, removed,
                   raisedOn, adapterError, errAt, scen>>
    /\ UNCHANGED outsideDownload


\* =============================================== force.py: postprocess
\* A file name is a sequence of tokens; a path is a directory and a name.
\* The directory part of the paths holds none of the tokens looked for.
StartsWith(s, pre) == Len(s) >= Len(pre) /\ SubSeq(s, 1, Len(pre)) = pre
EndsWithTok(s, suf) == Len(s) >= Len(suf) /\ SubSeq(s, Len(s) - Len(suf) + 1, Len(s)) = suf
ContainsTok(s, sub) ==
    \E k \in 1 .. (Len(s) - Len(sub) + 1) : SubSeq(s, k, k + Len(sub) - 1) = sub

\* str.replace(old, new)
RECURSIVE ReplaceTok(_, _, _)
ReplaceTok(s, old, new) ==
    IF Len(s) < Len(old) THEN s
    ELSE IF SubSeq(s, 1, Len(old)) = old
    THEN new \o ReplaceTok(SubSeq(s, Len(old) + 1, Len(s)), old, new)
    ELSE <<Head(s)>> \o ReplaceTok(Tail(s), old, new)

Path(d, n) == [dirn |-> d, name |-> n]
InMosaic(n) == Path("mosaic", n)
InTarget(n) == Path("target", n)
InIndices(n) == Path("indices", n)

\* same-day mosaics are named <date>_LEVEL2_<sensor>_<product>.vrt
TileStems == << <<"D1", "_LEVEL2_", "SEN2", "A", "_">>,
                <<"D1", "_LEVEL2_", "LND", "08", "_">>,
                <<"D2", "_LEVEL2_", "SEN2", "B", "_">>,
                <<"D2", "_LEVEL2_", "LND", "09", "_">> >>
Tiles == {TileStems[k] : k \in 1 .. NumTiles}

BoaVrt(t) == t \o <<"BOA", ".vrt">>
QaiVrt(t) == t \o <<"QAI", ".vrt">>
OtherFile == <<"D1", "_LEVEL2_", "SEN2", "A", "_", "OVV", ".jpg">>
\* a composite in the output directory that is of neither sensor family
ForeignComposite == <<"D0", "_LEVEL2_", "MOD", "_", "BOA", "_", "clearsky", ".tif">>

\* band descriptions of the surface-reflectance mosaic of tile t
Desc(t, b) == [tile |-> t, band |-> b]
NoDesc == [tile |-> <<>>, band |-> 0]
SrcDesc(t) == [b \in 1 .. NumBands |-> Desc(t, b)]
BlankDesc == [b \in 1 .. NumBands |-> NoDesc]

TileOf(n) == CHOOSE t \in Tiles : StartsWith(n, t)

\* Band.Checksum() values of a mask
ChecksumValues == {0, 1}

RECURSIVE PermSeqs(_)
PermSeqs(S) ==
    IF S = {} THEN {<<>>}
    ELSE UNION {{<<x>> \o q : q \in PermSeqs(S \ {x})} : x \in S}

Range(sq) == {sq[k] : k \in 1 .. Len(sq)}

\* lines 370-380: the clip jobs, in listing order
ClipJob(file) ==
    LET outfile_name_tmp == ReplaceTok(file, <<"BOA", ".vrt">>, <<"BOA", "_", "clipped", ".vrt">>)
        outfile_name == ReplaceTok(outfile_name_tmp, <<"QAI", ".vrt">>, <<"QAI", "_", "clipped", ".vrt">>)
    IN <<InMosaic(file), InMosaic(outfile_name)>>

IsMosaicOutput(file) ==
    EndsWithTok(file, <<"BOA", ".vrt">>) \/ EndsWithTok(file, <<"QAI", ".vrt">>)

\* the input of the clip job that wrote out
ClipSource(jobs, out) == jobs[CHOOSE k \in 1 .. Len(jobs) : jobs[k][2] = out][1]

\* lines 396-399
IsClippedBoa(out_file) == ContainsTok(out_file.name, <<"BOA">>)
IsClippedQai(out_file) == ~IsClippedBoa(out_file) /\ ContainsTok(out_file.name, <<"QAI">>)

\* lines 408-421
ClearskyNameFixed(qai_file) == Path(qai_file.dirn, <<"clearsky", ".tif">>)
ClearskyName(qai_file) ==
    Path(qai_file.dirn, ReplaceTok(qai_file.name, <<"QAI", "_", "clipped", ".vrt">>, <<"clearsky", ".tif">>))
ClearskyCmd(qai_file) ==
    [A |-> qai_file, outfile |-> ClearskyName(qai_file), calc |-> "((A >> 1) & 3) == 0"]

\* line 437
ChecksumPositiveOrZero(c) == c >= 0
ChecksumPositive(c) == c > 0

\* lines 441-449
BoaFileOf(clearsky_file) ==
    Path(clearsky_file.dirn,
         ReplaceTok(clearsky_file.name, <<"clearsky", ".tif">>, <<"BOA", "_", "clipped", ".vrt">>))
OutBoaFileOf(boa_file) ==
    InTarget(ReplaceTok(boa_file.name, <<"BOA", "_", "clipped", ".vrt">>, <<"BOA", "_", "clearsky", ".tif">>))
CloudfreeCmd(clearsky_file) ==
    [A |-> BoaFileOf(clearsky_file), B |-> clearsky_file,
     outfile |-> OutBoaFileOf(BoaFileOf(clearsky_file)), calc |-> "A*B"]

\* lines 468-472
QaiOutputFile(qai_file) == InTarget(ReplaceTok(qai_file.name, <<".vrt">>, <<".tif">>))

\* boa_input_output[boa_file] = out_boa_file on an insertion-ordered dict
DictPut(dict, key, val) ==
    IF \E k \in 1 .. Len(dict) : dict[k][1] = key
    THEN [k \in 1 .. Len(dict) |-> IF dict[k][1] = key THEN <<key, val>> ELSE dict[k]]
    ELSE Append(dict, <<key, val>>)

\* update_band_description_from_reference: the target's descriptions afterwards
UpdateBandDescriptionNoop(target_desc, ref_desc) == target_desc
UpdateBandDescription(target_desc, ref_desc) ==
    [b \in DOMAIN target_desc |-> IF b \in DOMAIN ref_desc THEN ref_desc[b] ELSE target_desc[b]]


EmptyFn == [x \in {} |-> <<>>]

\* a printed message: its fixed text and the file name put into it
Message(text, name) == [text |-> text, name |-> name]

\* line 358
StartMessage == Message("Postprocessing to clear sky mosaics...", <<>>)

\* line 447: print(f"Creating clear sky mosaic {out_boa_filename}...")
CreatingMessage(clearsky_file) ==
    Message("Creating clear sky mosaic ", OutBoaFileOf(BoaFileOf(clearsky_file)).name)

\* lines 494-497
FinishedMessage ==
    Message("Postprocessing of clear sky same day mosaics finished.", <<>>)

PpLists ==
    /\ sums = EmptyFn
    /\ clipped_boa_files = <<>>
    /\ clipped_qai_files = <<>>
    /\ clearsky_files = <<>>
    /\ clearsky_cmd_list = <<>>
    /\ pending = {}
    /\ poolError = FALSE
    /\ fi = 0
    /\ cloudfree_parallel_list = <<>>
    /\ boa_input_output = <<>>
    /\ index = "NDVI"
    /\ indices_cmd_list = <<>>
    /\ printed = <<>>

\* postprocess not running
PpIdle ==
    /\ ppc = "idle"
    /\ fs = {}
    /\ save_qai = FALSE
    /\ qaiSum = [t \in Tiles |-> 0]
    /\ bandDesc = EmptyFn
    /\ PpLists

\* the mosaic directory after force-mosaic; the output directory is empty or
\* holds a composite this run did not write
PpInit ==
    /\ ppc = "start"
    /\ \E content \in [Tiles -> SUBSET {"BOA", "QAI"}], other \in BOOLEAN,
          foreign \in BOOLEAN :
          /\ fs = {InMosaic(BoaVrt(t)) : t \in {u \in Tiles : "BOA" \in content[u]}}
                  \cup {InMosaic(QaiVrt(t)) : t \in {u \in Tiles : "QAI" \in content[u]}}
                  \cup (IF other THEN {InMosaic(OtherFile)} ELSE {})
                  \cup (IF foreign THEN {InTarget(ForeignComposite)} ELSE {})
          /\ bandDesc = [q \in {InMosaic(BoaVrt(t)) : t \in {u \in Tiles : "BOA" \in content[u]}}
                          |-> SrcDesc(TileOf(q.name))]
          /\ qaiSum \in [Tiles -> ChecksumValues]
          /\ \A t \in Tiles : "QAI" \notin content[t] => qaiSum[t] = 0
    /\ save_qai \in BOOLEAN
    /\ PpLists

MosaicListing == {q.name : q \in {x \in fs : x.dirn = "mosaic"}}

\* lines 363-371: the orders os.listdir can give the mosaic directory. The listing
\* is only read by the loop that splits it into the BOA and the QAI list, so
\* one listing stands for all that put the BOA files and the QAI files in
\* the same order
Listings ==
    LET boa == {f \in MosaicListing : EndsWithTok(f, <<"BOA", ".vrt">>)}
        qai == {f \in MosaicListing : EndsWithTok(f, <<"QAI", ".vrt">>)}
    IN {b \o q \o o : b \in PermSeqs(boa), q \in PermSeqs(qai),
                       o \in PermSeqs(MosaicListing \ (boa \cup qai))}

\* lines 360-369: nothing in the mosaic directory
PostNoFiles ==
    /\ ppc = "start"
    /\ MosaicListing = {}
    /\ ppc' = "ppraised"
    /\ printed' = Append(printed, StartMessage)
    /\ UNCHANGED <<fs, save_qai, qaiSum, sums, bandDesc,
                   clipped_boa_files, clipped_qai_files, clearsky_files,
                   clearsky_cmd_list, pending, poolError, fi,
                   cloudfree_parallel_list, boa_input_output, index,
                   indices_cmd_list>>
    /\ UNCHANGED <<ixvars, outsidePost>>

\* lines 370-380: the clip jobs for a listing in the order os.listdir gave it
FilesToClip(order) ==
    LET matching == SelectSeq(order, IsMosaicOutput)
    IN [k \in 1 .. Len(matching) |-> ClipJob(matching[k])]

\* lines 360-399: the listing, the clip jobs and gdal.Translate of every job;
\* a clipped VRT keeps the band descriptions of its source
Clip ==
    /\ ppc = "start"
    /\ MosaicListing # {}
    /\ \E order \in Listings :
          LET files_to_clip == FilesToClip(order)
              outs == [k \in 1 .. Len(files_to_clip) |-> files_to_clip[k][2]]
          IN
          /\ fs' = fs \cup Range(outs)
          /\ clipped_boa_files' = SelectSeq(outs, IsClippedBoa)
          /\ clipped_qai_files' = SelectSeq(outs, IsClippedQai)
          /\ bandDesc' = [q \in DOMAIN bandDesc \cup
                               {files_to_clip[k][2] : k \in {j \in 1 .. Len(files_to_clip) :
                                                            files_to_clip[j][1] \in DOMAIN bandDesc}}
                          |-> IF q \in DOMAIN bandDesc THEN bandDesc[q]
                              ELSE bandDesc[ClipSource(files_to_clip, q)]]
    /\ ppc' = "masks"
    /\ printed' = Append(printed, StartMessage)
    /\ UNCHANGED <<save_qai, qaiSum, sums, clearsky_files,
                   clearsky_cmd_list, pending, poolError, fi,
                   cloudfree_parallel_list, boa_input_output, index,
                   indices_cmd_list>>
    /\ UNCHANGED <<ixvars, outsidePost>>

\* lines 405-424: the mask commands, handed to the pool
BuildMasks ==
    /\ ppc = "masks"
    /\ clearsky_cmd_list' = [k \in 1 .. Len(clipped_qai_files) |-> ClearskyCmd(clipped_qai_files[k])]
    /\ clearsky_files' = [k \in 1 .. Len(clipped_qai_files) |-> ClearskyName(clipped_qai_files[k])]
    /\ pending' = 1 .. Len(clipped_qai_files)
    /\ poolError' = FALSE
    /\ ppc' = "maskpool"
    /\ UNCHANGED <<fs, save_qai, printed, qaiSum, sums, bandDesc,
                   clipped_boa_files, clipped_qai_files, fi,
                   cloudfree_parallel_list, boa_input_output, index,
                   indices_cmd_list>>
    /\ UNCHANGED <<ixvars, outsidePost>>

\* one gdal_calc.py task of the mask batch finishes (in any order)
MaskTask ==
    /\ ppc = "maskpool"
    /\ \E k \in pending :
          LET cmd == clearsky_cmd_list[k] IN
          /\ pending' = pending \ {k}
          /\ IF cmd.A \in fs
             THEN /\ fs' = fs \cup {cmd.outfile}
                  /\ sums' = (cmd.outfile :> qaiSum[TileOf(cmd.A.name)]) @@ sums
                  /\ UNCHANGED poolError
             ELSE /\ poolError' = TRUE
                  /\ UNCHANGED <<fs, sums>>
    /\ UNCHANGED <<ppc, save_qai, printed, qaiSum, bandDesc,
                   clipped_boa_files, clipped_qai_files, clearsky_files,
                   clearsky_cmd_list, fi, cloudfree_parallel_list,
                   boa_input_output, index, indices_cmd_list>>
    /\ UNCHANGED <<ixvars, outsidePost>>

\* lines 96-99: pool.map returns, or re-raises a task's exception, once no
\* task of the batch is left
MapReturnsEarly(left) == TRUE
MapReturns(left) == left = {}

\* pool.map returns (or re-raises a task's exception); lines 428-429
MaskJoin ==
    /\ ppc = "maskpool"
    /\ MapReturns(pending)
    /\ ppc' = IF poolError THEN "ppraised" ELSE "filter"
    /\ fi' = 1
    /\ cloudfree_parallel_list' = <<>>
    /\ boa_input_output' = <<>>
    /\ UNCHANGED <<fs, save_qai, printed, qaiSum, sums, bandDesc,
                   clipped_boa_files, clipped_qai_files, clearsky_files,
                   clearsky_cmd_list, pending, poolError, index,
                   indices_cmd_list>>
    /\ UNCHANGED <<ixvars, outsidePost>>

\* lines 430-483: one iteration of the loop over clearsky_files
FilterStep ==
    /\ ppc = "filter"
    /\ fi <= Len(clearsky_files)
    /\ LET clearsky_file == clearsky_files[fi]
           checksum == sums[clearsky_file]
       IN IF ChecksumPositive(checksum)
          THEN /\ fs' = fs \cup {InTarget(clearsky_file.name)}
                           \cup (IF save_qai THEN {QaiOutputFile(clipped_qai_files[fi])} ELSE {})
               /\ boa_input_output' =
                     DictPut(boa_input_output, BoaFileOf(clearsky_file),
                             OutBoaFileOf(BoaFileOf(clearsky_file)))
               /\ cloudfree_parallel_list' =
                     Append(cloudfree_parallel_list, CloudfreeCmd(clearsky_file))
               /\ printed' = Append(printed, CreatingMessage(clearsky_file))
          ELSE \* the if of line 437 has no else branch
               UNCHANGED <<fs, boa_input_output, cloudfree_parallel_list, printed>>
    /\ fi' = fi + 1
    /\ UNCHANGED <<ppc, save_qai, qaiSum, sums, bandDesc,
                   clipped_boa_files, clipped_qai_files, clearsky_files,
                   clearsky_cmd_list, pending, poolError, index,
                   indices_cmd_list>>
    /\ UNCHANGED <<ixvars, outsidePost>>

\* lines 485-487: the composite commands, handed to the pool
StartComposites ==
    /\ ppc = "filter"
    /\ fi > Len(clearsky_files)
    /\ pending' = 1 .. Len(cloudfree_parallel_list)
    /\ poolError' = FALSE
    /\ ppc' = "comppool"
    /\ UNCHANGED <<fs, save_qai, printed, qaiSum, sums, bandDesc,
                   clipped_boa_files, clipped_qai_files, clearsky_files,
                   clearsky_cmd_list, fi, cloudfree_parallel_list,
                   boa_input_output, index, indices_cmd_list>>
    /\ UNCHANGED <<ixvars, outsidePost>>

\* one gdal_calc.py task of the composite batch finishes; the composite it
\* writes has the bands of A and no band descriptions
CompositeTask ==
    /\ ppc = "comppool"
    /\ \E k \in pending :
          LET cmd == cloudfree_parallel_list[k] IN
          /\ pending' = pending \ {k}
          /\ IF cmd.A \in fs /\ cmd.B \in fs
             THEN /\ fs' = fs \cup {cmd.outfile}
                  /\ bandDesc' = (cmd.outfile :> BlankDesc) @@ bandDesc
                  /\ UNCHANGED poolError
             ELSE /\ poolError' = TRUE
                  /\ UNCHANGED <<fs, bandDesc>>
    /\ UNCHANGED <<ppc, save_qai, printed, qaiSum, sums,
                   clipped_boa_files, clipped_qai_files, clearsky_files,
                   clearsky_cmd_list, fi, cloudfree_parallel_list,
                   boa_input_output, index, indices_cmd_list>>
    /\ UNCHANGED <<ixvars, outsidePost>>

CompositeJoin ==
    /\ ppc = "comppool"
    /\ MapReturns(pending)
    /\ ppc' = IF poolError THEN "ppraised" ELSE "repair"
    /\ UNCHANGED <<fs, save_qai, printed, qaiSum, sums, bandDesc,
                   clipped_boa_files, clipped_qai_files, clearsky_files,
                   clearsky_cmd_list, pending, poolError, fi,
                   cloudfree_parallel_list, boa_input_output, index,
                   indices_cmd_list>>
    /\ UNCHANGED <<ixvars, outsidePost>>

\* lines 489-492: the descriptions of a composite after the repair loop
RepairedDescFromFirst(descs, dict, out) == UpdateBandDescription(descs[out], descs[dict[1][1]])
RepairedDesc(descs, dict, out) ==
    LET k == CHOOSE j \in 1 .. Len(dict) : dict[j][2] = out
    IN UpdateBandDescription(descs[out], descs[dict[k][1]])

Repair ==
    /\ ppc = "repair"
    /\ bandDesc' = [q \in DOMAIN bandDesc |->
                       IF \E j \in 1 .. Len(boa_input_output) : boa_input_output[j][2] = q
                       THEN RepairedDesc(bandDesc, boa_input_output, q)
                       ELSE bandDesc[q]]
    /\ ppc' = "ppdone"
    /\ printed' = Append(printed, FinishedMessage)
    /\ UNCHANGED <<fs, save_qai, qaiSum, sums,
                   clipped_boa_files, clipped_qai_files, clearsky_files,
                   clearsky_cmd_list, pending, poolError, fi,
                   cloudfree_parallel_list, boa_input_output, index,
                   indices_cmd_list>>
    /\ UNCHANGED <<ixvars, outsidePost>>

\* ================================================ indices.py: CreateIndices
NormDiff == "((A.astype(float)-B)/(A.astype(float)+B))"
INDICES ==
    [NDVI |-> [formula |-> [kind |-> "str", text |-> NormDiff],
               Sentinel2 |-> [A |-> 4, B |-> 8], LANDSAT |-> [A |-> 3, B |-> 5]],
     NDSI |-> [formula |-> [kind |-> "str", text |-> NormDiff],
               Sentinel2 |-> [A |-> 3, B |-> 11], LANDSAT |-> [A |-> 4, B |-> 6]],
     NDMI |-> [formula |-> [kind |-> "set", text |-> NormDiff],
               Sentinel2 |-> [A |-> 8, B |-> 11], LANDSAT |-> [A |-> 5, B |-> 6]]]

\* f'--calc="{formula}"': a str is inserted as it is, a set as its repr
CalcArg(formula) ==
    IF formula.kind = "str" THEN <<"\"", formula.text, "\"">>
    ELSE <<"\"", "{'", formula.text, "'}", "\"">>

Unbound == [A |-> 0, B |-> 0]

\* a name the table has no entry for
IndexNames == DOMAIN INDICES \cup {"EVI"}

\* lines 68-71: the value of bands after the if / elif of one iteration
BandsForFirstFile(file, idx, bands) ==
    IF bands # Unbound THEN bands
    ELSE IF ContainsTok(file, <<"SEN2">>) THEN INDICES[idx].Sentinel2
    ELSE IF ContainsTok(file, <<"LND">>) THEN INDICES[idx].LANDSAT
    ELSE bands
BandsFor(file, idx, bands) ==
    IF ContainsTok(file, <<"SEN2">>) THEN INDICES[idx].Sentinel2
    ELSE IF ContainsTok(file, <<"LND">>) THEN INDICES[idx].LANDSAT
    ELSE bands

\* lines 67-92: the commands for files, bands being the value the variable
\* holds from the previous iteration (Unbound before the first assignment);
\* reading an unbound bands raises
RECURSIVE CalcCmds(_, _, _)
CalcCmds(files, idx, bands) ==
    IF files = <<>> THEN [cmds |-> <<>>, raised |-> FALSE]
    ELSE LET file == Head(files)
             b == BandsFor(file, idx, bands)
         IN IF b = Unbound
            THEN [cmds |-> <<>>, raised |-> TRUE]
            ELSE LET rest == CalcCmds(Tail(files), idx, b)
                     cmd == [A |-> InTarget(file), a_band |-> b.A,
                             B |-> InTarget(file), b_band |-> b.B,
                             outfile |-> InIndices(ReplaceTok(file, <<"BOA", "_", "clearsky">>, <<idx>>)),
                             calc |-> CalcArg(INDICES[idx].formula)]
                 IN [cmds |-> <<cmd>> \o rest.cmds, raised |-> rest.raised]

\* line 93: print(" ".join(index_calc))
CommandMessage(cmd) == Message("gdal_calc.py", cmd.outfile.name)

\* lines 59-63
FilesToProcess == {q.name : q \in {x \in fs : x.dirn = "target"
                                    /\ EndsWithTok(x.name, <<"BOA", "_", "clearsky", ".tif">>)}}

\* CreateIndices(indir=output_dir, outdir=indices_dir, index=index) and its
\* calculate: __init__ (lines 51-56) makes outdir and then looks the index
\* up; calculate (lines 58-95) builds the commands and runs them in the pool
Calculate ==
    /\ ppc = "ppdone"
    /\ \E idx \in IndexNames, order \in PermSeqs(FilesToProcess) :
          /\ outdir_exists' = TRUE
          /\ IF idx \notin DOMAIN INDICES
             THEN /\ ppc' = "initraised"
                  /\ UNCHANGED <<index, indices_cmd_list, fs, indir_listed, printed>>
             ELSE LET r == CalcCmds(order, idx, Unbound) IN
                  /\ index' = idx
                  /\ printed' = printed \o [k \in 1 .. Len(r.cmds) |-> CommandMessage(r.cmds[k])]
                  /\ indir_listed' = TRUE
                  /\ indices_cmd_list' = r.cmds
                  /\ IF r.raised
                     THEN ppc' = "calcraised" /\ UNCHANGED fs
                     ELSE /\ ppc' = "calcdone"
                          /\ fs' = fs \cup {r.cmds[k].outfile : k \in 1 .. Len(r.cmds)}
    /\ UNCHANGED <<save_qai, qaiSum, sums, bandDesc,
                   clipped_boa_files, clipped_qai_files, clearsky_files,
                   clearsky_cmd_list, pending, poolError, fi,
                   cloudfree_parallel_list, boa_input_output>>
    /\ UNCHANGED outsidePost

\* CreateIndices not constructed
IxIdle ==
    /\ outdir_exists = FALSE
    /\ indir_listed = FALSE

\* before CreateIndices is constructed: outdir exists or not
IxInit ==
    /\ outdir_exists \in BOOLEAN
    /\ indir_listed = FALSE

\* main not running
MnIdle ==
    /\ download_only = FALSE
    /\ force_only = FALSE
    /\ indices_only = FALSE
    /\ remove_force_data = FALSE
    /\ clear_download = FALSE
    /\ use_param_file = FALSE
    /\ indices_list = NoneValue
    /\ layout = "default"
    /\ mpc = "idle"
    /\ index_i = 0
    /\ mfs = {}
    /\ trace = <<>>
    /\ calls = <<>>

\* no mask expression being evaluated
MkIdle ==
    /\ qai_value = 0
    /\ mask_value = 0
    /\ mkpc = "idle"

\* download_with_eodag not running
SwIdle ==
    /\ total_count = 0
    /\ spc = "idle"
    /\ pages = 0
    /\ page = 0
    /\ total_search_results = <<>>
    /\ download_all_arg = <<>>

\* create_force_level2_config_file not running (arguments at their defaults)
CfIdle ==
    /\ cloud_buffer = 300
    /\ n_procs = 1
    /\ cpc = "idle"
    /\ config_file_dummy = <<>>
    /\ line_no = 0
    /\ updated_conf = <<>>
    /\ config_file = <<>>

\* no ForceProcess being constructed
FdIdle ==
    /\ clock = 0
    /\ tmp = {}
    /\ rpc = <<>>
    /\ now_time_str = <<>>
    /\ subdir = <<>>
    /\ made = <<>>

\* download_and_extract not running (max_tries at its default)
DlIdle ==
    /\ max_tries = 3
    /\ pc = "idle"
    /\ prod = 1
    /\ run_download = FALSE
    /\ count = 0
    /\ dir = EmptyDir
    /\ todo = {}
    /\ corrupt_files = <<>>
    /\ result = NoneValue
    /\ log = {}
    /\ rounds = 0
    /\ scans = 0
    /\ dlcalls = 0
    /\ emptyAt = 0
    /\ events = NoEvents
    /\ unpackArgs = {}
    /\ removed = {}
    /\ raisedOn = {}
    /\ adapterError = FALSE
    /\ errAt = [rounds |-> 0, scans |-> 0, dlcalls |-> 0, prod |-> 0]
    /\ scen = "off"

InitPost == DlIdle /\ PpInit /\ IxInit /\ MnIdle /\ FdIdle /\ SwIdle /\ CfIdle /\ MkIdle

NextPost ==
    \/ PostNoFiles
    \/ Clip
    \/ BuildMasks
    \/ MaskTask
    \/ MaskJoin
    \/ FilterStep
    \/ StartComposites
    \/ CompositeTask
    \/ CompositeJoin
    \/ Repair
    \/ Calculate

SpecPost == InitPost /\ [][NextPost]_vars

Init == DlInit /\ PpIdle /\ IxIdle /\ MnIdle /\ FdIdle /\ SwIdle /\ CfIdle /\ MkIdle

Next ==
    \/ LoopTest
    \/ DownloadOk
    \/ SearchRaises
    \/ DownloadRaises
    \/ StartScan
    \/ ScanFile
    \/ ExtractReturn
    \/ LoopTail

Spec == Init /\ [][Next]_vars

\* ========================================================== cli.py: main
\* A path is a sequence of names, a name a sequence of tokens.
MaxIndices == 2

OutName == <<"out">>
DataName == <<"data">>
TmpName == <<"tmp">>
IdxName == <<"idx">>
\* a directory name that starts like a Sentinel-2 scene
SceneLikeName == <<"S2A", "_results">>

\* lines 82-98, 189-195: the directories of the configuration. "default"
\* leaves download_dir, temp_force_dir and indices_dir out, "separate" sets
\* them outside output_dir, "inside" sets output_dir inside download_dir
Layouts == {"default", "separate", "inside"}
OutputDir(l) == IF l = "inside" THEN <<DataName, SceneLikeName>> ELSE <<OutName>>
DownloadDir(l) == IF l = "default" THEN <<OutName, <<"download">> >> ELSE <<DataName>>
TempForceDir(l) == IF l = "default" THEN <<OutName, <<"temp">> >> ELSE <<TmpName>>
IndicesDir(l) == IF l = "default" THEN <<OutName, <<"indices">> >> ELSE <<IdxName>>

\* force.py lines 110-114: force_dir_<time stamp> under temp_dir
ForceDir(l) == TempForceDir(l) \o << <<"force_dir_", "T">> >>

DirEntry(p) == [p |-> p, isdir |-> TRUE]
FileEntry(p) == [p |-> p, isdir |-> FALSE]
IsPrefix(p, q) == Len(p) <= Len(q) /\ SubSeq(q, 1, Len(p)) = p
Ancestors(p) == {SubSeq(p, 1, k) : k \in 1 .. Len(p)}

\* os.makedirs / os.mkdir of a directory and the directories above it
MakeDirs(f, p) == f \cup {DirEntry(q) : q \in Ancestors(p)}
\* shutil.rmtree
RmTree(f, p) == {e \in f : ~IsPrefix(p, e.p)}
\* os.listdir
Entries(f, d) == {e \in f : Len(e.p) = Len(d) + 1 /\ IsPrefix(d, e.p)}

\* what download_and_extract leaves in download_dir: extracted scenes and
\* the adapter's record of what it downloaded
Scenes == { <<"S2A", "_1", ".SAFE">>, <<"S2C", "_1", ".SAFE">>, <<"LC08", "_1">>,
            <<".downloaded">> }

\* force.py line 144: the names create_force_queue_file takes for scenes
QueuePrefixes == {"LC09", "LC08", "LO09", "LO08", "S2A", "S2B", "S2C"}

\* the values of indices_list: lists of names, or None when the key is missing
RECURSIVE SeqsUpTo(_, _)
SeqsUpTo(S, n) ==
    IF n = 0 THEN {<<>>}
    ELSE LET shorter == SeqsUpTo(S, n - 1)
         IN shorter \cup {Append(q, x) : q \in shorter, x \in S}
ConfigValue(list) == [none |-> FALSE, value |-> list]
IndexLists == {ConfigValue(q) : q \in SeqsUpTo({"NDVI", "EVI"}, MaxIndices)} \cup {NoneValue}

\* main at line 196, the configuration read
InitMain ==
    /\ download_only \in BOOLEAN
    /\ force_only \in BOOLEAN
    /\ indices_only \in BOOLEAN
    /\ remove_force_data \in BOOLEAN
    /\ clear_download \in BOOLEAN
    /\ use_param_file \in BOOLEAN
    /\ indices_list \in IndexLists
    /\ layout \in Layouts
    /\ mpc = "config"
    /\ index_i = 0
    /\ mfs = MakeDirs(MakeDirs(MakeDirs(MakeDirs({}, OutputDir(layout)),
                                        DownloadDir(layout)),
                               TempForceDir(layout)),
                      IF layout = "default" THEN IndicesDir(layout) ELSE OutputDir(layout))
    /\ trace = <<>>
    /\ calls = <<>>

Ev(stage, ev) == [stage |-> stage, ev |-> ev]
\* an invocation: item is the position in indices_list it is made for
Call(tool, item, pipe, err) == [tool |-> tool, item |-> item, pipe |-> pipe, err |-> err]

\* lines 79-93: run_subprocess raises when stderr is piped and has "error" in it
RunSubprocessRaises(pipe, err) == pipe /\ err

mainConfig == <<download_only, force_only, indices_only, remove_force_data,
                clear_download, use_param_file, indices_list, layout>>
outsideMain == <<dlvars, ppvars, ixvars, fdvars, swvars, cfvars, mkvars>>

\* lines 197-201: the one combination of mode flags main rejects
Conflict(d, f, i) == f /\ d

\* line 205, line 225, line 265: the stages the flags let run
RunsAcquisitionAlways(d, f, i) == TRUE
RunsAcquisition(d, f, i) == ~f /\ ~i
RunsForce(d, f, i) == ~d /\ ~i
RunsIndices(d, f, i) == ~d /\ ~f

CheckFlags ==
    /\ mpc = "config"
    /\ mpc' = IF Conflict(download_only, force_only, indices_only)
              THEN "raised" ELSE "acquisition"
    /\ UNCHANGED <<index_i, mfs, trace, calls, mainConfig, outsideMain>>

\* line 205 false
SkipAcquisition ==
    /\ mpc = "acquisition"
    /\ ~RunsAcquisition(download_only, force_only, indices_only)
    /\ mpc' = "force"
    /\ UNCHANGED <<index_i, mfs, trace, calls, mainConfig, outsideMain>>

\* lines 205-223: download_and_extract is called
StartAcquisition ==
    /\ mpc = "acquisition"
    /\ RunsAcquisition(download_only, force_only, indices_only)
    /\ trace' = Append(trace, Ev("acquisition", "start"))
    /\ mpc' = "downloading"
    /\ UNCHANGED <<index_i, mfs, calls, mainConfig, outsideMain>>

\* download_and_extract returns, the scenes in download_dir
AcquisitionReturns ==
    /\ mpc = "downloading"
    /\ mfs' = mfs \cup {DirEntry(Append(DownloadDir(layout), n)) : n \in Scenes}
    /\ trace' = Append(trace, Ev("acquisition", "return"))
    /\ mpc' = "force"
    /\ UNCHANGED <<index_i, calls, mainConfig, outsideMain>>

\* download_and_extract raises (the search or the download failed)
AcquisitionRaises ==
    /\ mpc = "downloading"
    /\ trace' = Append(trace, Ev("acquisition", "raise"))
    /\ mpc' = "raised"
    /\ UNCHANGED <<index_i, mfs, calls, mainConfig, outsideMain>>

\* line 225 false
SkipForce ==
    /\ mpc = "force"
    /\ ~RunsForce(download_only, force_only, indices_only)
    /\ mpc' = "indices"
    /\ UNCHANGED <<index_i, mfs, trace, calls, mainConfig, outsideMain>>

\* lines 225-230: ForceProcess(), setup_wvdb, create_force_queue_file
StartForce ==
    /\ mpc = "force"
    /\ RunsForce(download_only, force_only, indices_only)
    /\ trace' = Append(trace, Ev("correction", "start"))
    /\ mfs' = MakeDirs(mfs, ForceDir(layout))
                 \cup {FileEntry(Append(DownloadDir(layout), <<"queue">>))}
    /\ mpc' = "paramfile"
    /\ UNCHANGED <<index_i, calls, mainConfig, outsideMain>>

\* lines 231-243: force-parameter is run unless a parameter file is given
ParamFile ==
    /\ mpc = "paramfile"
    /\ IF use_param_file
       THEN mpc' = "level2" /\ UNCHANGED <<calls, trace>>
       ELSE \E err \in BOOLEAN :
               /\ calls' = Append(calls, Call("force-parameter", 0, TRUE, err))
               /\ IF RunSubprocessRaises(TRUE, err)
                  THEN /\ mpc' = "raised"
                       /\ trace' = Append(trace, Ev("correction", "raise"))
                  ELSE mpc' = "level2" /\ UNCHANGED trace
    /\ UNCHANGED <<index_i, mfs, mainConfig, outsideMain>>

\* lines 244-245, force.py lines 322-335: force-level2 with pipe=False, then
\* the log files are copied
Level2 ==
    /\ mpc = "level2"
    /\ \E err \in BOOLEAN :
          /\ calls' = Append(calls, Call("force-level2", 0, FALSE, err))
          /\ IF RunSubprocessRaises(FALSE, err)
             THEN /\ mpc' = "raised"
                  /\ trace' = Append(trace, Ev("correction", "raise"))
                  /\ UNCHANGED mfs
             ELSE /\ mpc' = "mosaic"
                  /\ mfs' = MakeDirs(mfs, OutputDir(layout))
                  /\ UNCHANGED trace
    /\ UNCHANGED <<index_i, mainConfig, outsideMain>>

\* line 246, force.py lines 337-350: force-mosaic
Mosaic ==
    /\ mpc = "mosaic"
    /\ \E err \in BOOLEAN :
          /\ calls' = Append(calls, Call("force-mosaic", 0, TRUE, err))
          /\ IF RunSubprocessRaises(TRUE, err)
             THEN /\ mpc' = "raised"
                  /\ trace' = Append(trace, Ev("correction", "raise"))
             ELSE /\ mpc' = "postprocess"
                  /\ trace' = Append(trace, Ev("correction", "return"))
    /\ UNCHANGED <<index_i, mfs, mainConfig, outsideMain>>

\* lines 250-258: postprocess is called
StartPostprocess ==
    /\ mpc = "postprocess"
    /\ trace' = Append(trace, Ev("postprocessing", "start"))
    /\ mpc' = "clip"
    /\ UNCHANGED <<index_i, mfs, calls, mainConfig, outsideMain>>

\* force.py lines 363-369: the mosaic directory is empty
PostprocessNoFiles ==
    /\ mpc = "clip"
    /\ trace' = Append(trace, Ev("postprocessing", "raise"))
    /\ mpc' = "raised"
    /\ UNCHANGED <<index_i, mfs, calls, mainConfig, outsideMain>>

\* force.py lines 405-424: the batch of mask commands
MaskBatch ==
    /\ mpc = "clip"
    /\ \E err \in BOOLEAN :
          /\ calls' = Append(calls, Call("gdal_calc.py masks", 0, TRUE, err))
          /\ IF RunSubprocessRaises(TRUE, err)
             THEN /\ mpc' = "raised"
                  /\ trace' = Append(trace, Ev("postprocessing", "raise"))
             ELSE mpc' = "composites" /\ UNCHANGED trace
    /\ UNCHANGED <<index_i, mfs, mainConfig, outsideMain>>

\* force.py lines 485-497: the batch of composite commands, then the return
CompositeBatch ==
    /\ mpc = "composites"
    /\ \E err \in BOOLEAN :
          /\ calls' = Append(calls, Call("gdal_calc.py composites", 0, TRUE, err))
          /\ IF RunSubprocessRaises(TRUE, err)
             THEN /\ mpc' = "raised"
                  /\ trace' = Append(trace, Ev("postprocessing", "raise"))
                  /\ UNCHANGED mfs
             ELSE /\ mpc' = "cleanup"
                  /\ trace' = Append(trace, Ev("postprocessing", "return"))
                  /\ mfs' = mfs \cup {FileEntry(Append(OutputDir(layout),
                                          <<"D1", "_LEVEL2_", "SEN2", "A", "_", "BOA", "_", "clearsky", ".tif">>))}
    /\ UNCHANGED <<index_i, mainConfig, outsideMain>>

\* lines 262-263, force.py lines 499-508
Cleanup ==
    /\ mpc = "cleanup"
    /\ mfs' = IF remove_force_data THEN RmTree(mfs, ForceDir(layout)) ELSE mfs
    /\ mpc' = "indices"
    /\ UNCHANGED <<index_i, trace, calls, mainConfig, outsideMain>>

\* line 265 false
SkipIndices ==
    /\ mpc = "indices"
    /\ ~RunsIndices(download_only, force_only, indices_only)
    /\ mpc' = "clear"
    /\ UNCHANGED <<index_i, mfs, trace, calls, mainConfig, outsideMain>>

\* lines 265-266: the loop over indices_list is entered; iterating None raises
StartIndices ==
    /\ mpc = "indices"
    /\ RunsIndices(download_only, force_only, indices_only)
    /\ IF indices_list.none
       THEN /\ trace' = trace \o <<Ev("indices", "start"), Ev("indices", "raise")>>
            /\ mpc' = "raised"
            /\ UNCHANGED index_i
       ELSE /\ trace' = Append(trace, Ev("indices", "start"))
            /\ mpc' = "index"
            /\ index_i' = 1
    /\ UNCHANGED <<mfs, calls, mainConfig, outsideMain>>

\* lines 267-270: CreateIndices makes indices_dir, rejects a name INDICES
\* lacks, and calculate runs its batch
IndexStep ==
    /\ mpc = "index"
    /\ index_i <= Len(indices_list.value)
    /\ \E err \in BOOLEAN :
          LET name == indices_list.value[index_i]
              made_fs == MakeDirs(mfs, IndicesDir(layout))
          IN IF name \notin DOMAIN INDICES
             THEN /\ mfs' = made_fs
                  /\ mpc' = "raised"
                  /\ trace' = Append(trace, Ev("indices", "raise"))
                  /\ UNCHANGED <<calls, index_i>>
             ELSE /\ calls' = Append(calls, Call("gdal_calc.py index", index_i, TRUE, err))
                  /\ IF RunSubprocessRaises(TRUE, err)
                     THEN /\ mfs' = made_fs
                          /\ mpc' = "raised"
                          /\ trace' = Append(trace, Ev("indices", "raise"))
                          /\ UNCHANGED index_i
                     ELSE /\ mfs' = made_fs \cup
                                 {FileEntry(Append(IndicesDir(layout),
                                                   <<"D1", "_LEVEL2_", "SEN2", "A", "_", name, ".tif">>))}
                          /\ index_i' = index_i + 1
                          /\ UNCHANGED <<mpc, trace>>
    /\ UNCHANGED <<mainConfig, outsideMain>>

\* the loop of line 266 is over
IndicesReturn ==
    /\ mpc = "index"
    /\ index_i > Len(indices_list.value)
    /\ trace' = Append(trace, Ev("indices", "return"))
    /\ mpc' = "clear"
    /\ UNCHANGED <<index_i, mfs, calls, mainConfig, outsideMain>>

\* line 274-285: the names the clearing loop looks for
ClearPrefixes == {"LC09", "LC08", "LO09", "LO08", "S2A", "S2B", "queue", ".downloaded"}

\* lines 272-290: a directory is removed with its content; a file is removed
\* when os.path.isfile finds its bare name from the working directory, which
\* the names in rel stand for
ClearDownload ==
    /\ mpc = "clear"
    /\ IF clear_download
       THEN \E rel \in SUBSET {e \in Entries(mfs, DownloadDir(layout)) : ~e.isdir} :
               LET hit == {e \in Entries(mfs, DownloadDir(layout)) :
                              /\ Head(e.p[Len(e.p)]) \in ClearPrefixes
                              /\ (e.isdir \/ e \in rel)}
               IN mfs' = {e \in mfs : \A h \in hit : ~IsPrefix(h.p, e.p)}
       ELSE UNCHANGED mfs
    /\ mpc' = "finished"
    /\ UNCHANGED <<index_i, trace, calls, mainConfig, outsideMain>>

\* no ForceProcess constructed, no download loop, postprocess or calculate
InitMainSpec == InitMain /\ DlIdle /\ PpIdle /\ IxIdle /\ FdIdle /\ SwIdle /\ CfIdle /\ MkIdle

NextMain ==
    \/ CheckFlags
    \/ SkipAcquisition
    \/ StartAcquisition
    \/ AcquisitionReturns
    \/ AcquisitionRaises
    \/ SkipForce
    \/ StartForce
    \/ ParamFile
    \/ Level2
    \/ Mosaic
    \/ StartPostprocess
    \/ PostprocessNoFiles
    \/ MaskBatch
    \/ CompositeBatch
    \/ Cleanup
    \/ SkipIndices
    \/ StartIndices
    \/ IndexStep
    \/ IndicesReturn
    \/ ClearDownload

SpecMain == InitMainSpec /\ [][NextMain]_vars

\* ================================= force.py: ForceProcess.__init__, twice
\* Two pipeline runs construct ForceProcess with the same temp_dir.
MaxSecond == 2
Runs == {1, 2}

\* lines 112-135: the directories __init__ makes, in order, relative to
\* force_dir (level1_dir is given by main)
SubDirs == << <<>>, <<"level2">>, <<"log">>, <<"misc">>, <<"param">>,
              <<"provenance">>, <<"temp_dir">>, <<"level2", "mosaic">> >>

\* lines 111-114: force_dir_<%Y%m%d_%H%M%S> and a directory under it
WorkDir(stamp, k) == <<stamp>> \o SubDirs[k]

InitRuns ==
    /\ clock = 1
    /\ tmp = {}
    /\ rpc = [r \in Runs |-> "now"]
    /\ now_time_str = [r \in Runs |-> 0]
    /\ subdir = [r \in Runs |-> 1]
    /\ made = [r \in Runs |-> {}]

\* a second passes
Tick ==
    /\ clock < MaxSecond
    /\ clock' = clock + 1
    /\ UNCHANGED <<tmp, rpc, now_time_str, subdir, made>>
    /\ UNCHANGED <<dlvars, ppvars, ixvars, mnvars, swvars, cfvars, mkvars>>

\* lines 110-111: datetime.now() formatted to the second
ReadClock(r) ==
    /\ rpc[r] = "now"
    /\ now_time_str' = [now_time_str EXCEPT ![r] = clock]
    /\ rpc' = [rpc EXCEPT ![r] = "exists"]
    /\ UNCHANGED <<clock, tmp, subdir, made>>
    /\ UNCHANGED <<dlvars, ppvars, ixvars, mnvars, swvars, cfvars, mkvars>>

\* the position after makedirs has returned for sub-directory k
AfterMakedirs(k) == IF k = Len(SubDirs) THEN "done" ELSE "exists"

\* makedirs line 38, lines 46-48: an existing directory is kept and returned
ExistingDir(r, found) == IF found THEN AfterMakedirs(subdir[r]) ELSE "create"

Exists(r) ==
    /\ rpc[r] = "exists"
    /\ LET found == WorkDir(now_time_str[r], subdir[r]) \in tmp
           next == ExistingDir(r, found)
       IN /\ rpc' = [rpc EXCEPT ![r] = next]
          /\ subdir' = [subdir EXCEPT ![r] = IF next = "exists" THEN @ + 1 ELSE @]
    /\ UNCHANGED <<clock, tmp, now_time_str, made>>
    /\ UNCHANGED <<dlvars, ppvars, ixvars, mnvars, swvars, cfvars, mkvars>>

\* makedirs lines 39-45: os.makedirs raises when the directory has appeared
\* since line 38, and the exception is raised on
Create(r) ==
    /\ rpc[r] = "create"
    /\ LET d == WorkDir(now_time_str[r], subdir[r]) IN
       IF d \in tmp
       THEN /\ rpc' = [rpc EXCEPT ![r] = "failed"]
            /\ UNCHANGED <<tmp, subdir, made>>
       ELSE /\ tmp' = tmp \cup {d}
            /\ made' = [made EXCEPT ![r] = @ \cup {d}]
            /\ rpc' = [rpc EXCEPT ![r] = AfterMakedirs(subdir[r])]
            /\ subdir' = [subdir EXCEPT ![r] = IF subdir[r] = Len(SubDirs) THEN @ ELSE @ + 1]
    /\ UNCHANGED <<clock, now_time_str>>
    /\ UNCHANGED <<dlvars, ppvars, ixvars, mnvars, swvars, cfvars, mkvars>>

InitRunsSpec == InitRuns /\ DlIdle /\ PpIdle /\ IxIdle /\ MnIdle /\ SwIdle /\ CfIdle /\ MkIdle

NextRuns ==
    \/ Tick
    \/ \E r \in Runs : ReadClock(r)
    \/ \E r \in Runs : Exists(r)
    \/ \E r \in Runs : Create(r)

SpecRuns == InitRunsSpec /\ [][NextRuns]_vars

\* ========================================= download.py: download_with_eodag
MaxTotal == 41

\* line 40
items_per_page == 20

\* dag.search(page=i, items_per_page=20, ...): the matches, numbered
\* 1 .. total in the order of the adapter, that fall on page i; a page past
\* the last match is empty
SearchPage(total, i) ==
    LET first == (i - 1) * items_per_page
        left == total - first
        n == IF left <= 0 THEN 0 ELSE IF left < items_per_page THEN left ELSE items_per_page
    IN [k \in 1 .. n |-> first + k]

\* line 52: pages = int(total_count // items_per_page + 1)
PagesWithoutLast(total) == total \div items_per_page
Pages(total) == total \div items_per_page + 1

\* lines 56-58: [sitem for item in total_search_results for sitem in item]
RECURSIVE Flat(_)
Flat(lists) == IF lists = <<>> THEN <<>> ELSE Head(lists) \o Flat(Tail(lists))

InitSearch ==
    /\ total_count \in 0 .. MaxTotal
    /\ spc = "search"
    /\ pages = 0
    /\ page = 0
    /\ total_search_results = <<>>
    /\ download_all_arg = <<>>

\* lines 50-52: the first search, kept only for its count, and the page count
FirstSearch ==
    /\ spc = "search"
    /\ pages' = Pages(total_count)
    /\ page' = 1
    /\ spc' = "pages"
    /\ UNCHANGED <<total_count, total_search_results, download_all_arg>>
    /\ UNCHANGED <<dlvars, ppvars, ixvars, mnvars, fdvars, cfvars, mkvars>>

\* lines 53-55: one iteration of for i in range(1, pages + 1)
PageSearch ==
    /\ spc = "pages"
    /\ page <= pages
    /\ total_search_results' = Append(total_search_results, SearchPage(total_count, page))
    /\ page' = page + 1
    /\ UNCHANGED <<total_count, spc, pages, download_all_arg>>
    /\ UNCHANGED <<dlvars, ppvars, ixvars, mnvars, fdvars, cfvars, mkvars>>

\* lines 56-63: the pages are flattened and passed to dag.download_all
CallDownloadAll ==
    /\ spc = "pages"
    /\ page > pages
    /\ download_all_arg' = Flat(total_search_results)
    /\ spc' = "download_all"
    /\ UNCHANGED <<total_count, pages, page, total_search_results>>
    /\ UNCHANGED <<dlvars, ppvars, ixvars, mnvars, fdvars, cfvars, mkvars>>

InitSearchSpec ==
    InitSearch /\ DlIdle /\ PpIdle /\ IxIdle /\ MnIdle /\ FdIdle /\ CfIdle /\ MkIdle

NextSearch ==
    \/ FirstSearch
    \/ PageSearch
    \/ CallDownloadAll

SpecSearch == InitSearchSpec /\ [][NextSearch]_vars

\* ================== force.py: create_force_level2_config_file
MaxLines == 3

\* A line of text is the sequence of its pieces; " " is one blank.
\* "KEY = value"
Line(key, value) == <<key, " ", "=", " ", value>>

\* str(n) for the numbers used
Str(n) ==
    CASE n = 1 -> "1"
      [] n = 2 -> "2"
      [] n = 4 -> "4"
      [] n = 100 -> "100"
      [] n = 300 -> "300"

CloudBuffers == {100, 300}
NProcs == {1, 4}

\* lines 190-212: replace_lines (the CLOUD_BUFFER item has two blanks before =)
ReplaceLines(cb, np) ==
    << Line("FILE_QUEUE", "queue_file"),
       Line("DIR_LEVEL2", "level2_dir"),
       Line("DIR_LOG", "log_dir"),
       Line("DIR_PROVENANCE", "provenance_dir"),
       Line("DIR_TEMP", "temp_dir"),
       Line("FILE_DEM", "dem_path"),
       Line("PROJECTION", "wkt"),
       Line("DIR_WVPLUT", "wvdb_dir"),
       Line("RESAMPLING", "BL"),
       Line("MAX_CLOUD_COVER_FRAME", "100"),
       Line("MAX_CLOUD_COVER_TILE", "100"),
       <<"CLOUD_BUFFER", " ", " ", "=", " ", Str(cb)>>,
       Line("NPROC", Str(np)),
       Line("NTHREAD", Str(2)) >>

\* the position of the first "= " in a line, 0 when there is none
FirstSep(line) ==
    LET at == {k \in 1 .. Len(line) - 1 : line[k] = "=" /\ line[k + 1] = " "}
    IN IF at = {} THEN 0 ELSE CHOOSE k \in at : \A j \in at : k <= j

\* line 156: item.split("= ")[0]
KeyOf(line) == IF FirstSep(line) = 0 THEN line ELSE SubSeq(line, 1, FirstSep(line) - 1)

\* line 165: line_raw.strip()
RECURSIVE Strip(_)
Strip(line) ==
    IF line # <<>> /\ Head(line) = " " THEN Strip(Tail(line))
    ELSE IF line # <<>> /\ line[Len(line)] = " " THEN Strip(SubSeq(line, 1, Len(line) - 1))
    ELSE line

\* lines 166-168: the loop over replace_dict for one line; line.replace(line,
\* value) is value
RECURSIVE ReplaceIn(_, _)
ReplaceIn(line, repl) ==
    IF repl = <<>> THEN line
    ELSE ReplaceIn(IF StartsWith(line, KeyOf(Head(repl))) THEN Head(repl) ELSE line,
                   Tail(repl))

\* lines of the parameter file force-parameter writes: the header, a blank
\* line, a comment, parameters main sets and one it does not set
TemplateLines ==
    { <<"++PARAM_LEVEL2_START++">>,
      <<>>,
      <<"#", " ", "Type:", " ", "Integer">>,
      Line("FILE_QUEUE", "NULL"),
      Line("CLOUD_BUFFER", "300"),
      Line("NPROC", "32"),
      Line("ERASE_CLOUDS", "FALSE") }

Templates == SeqsUpTo(TemplateLines, MaxLines)

InitConfig ==
    /\ cloud_buffer \in CloudBuffers
    /\ n_procs \in NProcs
    /\ cpc = "force-parameter"
    /\ config_file_dummy = <<>>
    /\ line_no = 0
    /\ updated_conf = <<>>
    /\ config_file = <<>>

\* lines 187-188: force-parameter writes l2ps_dummy.prm
ForceParameter ==
    /\ cpc = "force-parameter"
    /\ config_file_dummy' \in Templates
    /\ line_no' = 1
    /\ cpc' = "replace"
    /\ UNCHANGED <<cloud_buffer, n_procs, updated_conf, config_file>>
    /\ UNCHANGED <<dlvars, ppvars, ixvars, mnvars, fdvars, swvars, mkvars>>

\* lines 164-169: one line of the dummy file
ReplaceLine ==
    /\ cpc = "replace"
    /\ line_no <= Len(config_file_dummy)
    /\ updated_conf' = Append(updated_conf,
                              ReplaceIn(Strip(config_file_dummy[line_no]),
                                        ReplaceLines(cloud_buffer, n_procs)))
    /\ line_no' = line_no + 1
    /\ UNCHANGED <<cloud_buffer, n_procs, cpc, config_file_dummy, config_file>>
    /\ UNCHANGED <<dlvars, ppvars, ixvars, mnvars, fdvars, swvars, mkvars>>

\* lines 171-173: updated_conf is written to l2ps.prm
WriteConfig ==
    /\ cpc = "replace"
    /\ line_no > Len(config_file_dummy)
    /\ config_file' = updated_conf
    /\ cpc' = "written"
    /\ UNCHANGED <<cloud_buffer, n_procs, config_file_dummy, line_no, updated_conf>>
    /\ UNCHANGED <<dlvars, ppvars, ixvars, mnvars, fdvars, swvars, mkvars>>

InitConfigSpec ==
    InitConfig /\ DlIdle /\ PpIdle /\ IxIdle /\ MnIdle /\ FdIdle /\ SwIdle /\ MkIdle

NextConfig ==
    \/ ForceParameter
    \/ ReplaceLine
    \/ WriteConfig

SpecConfig == InitConfigSpec /\ [][NextConfig]_vars

\* ============================ force.py: postprocess, the clear-sky mask
\* The quality flags are 16-bit; a value stands for its bit pattern.
FlagValues == 0 .. 2 ^ 16 - 1

\* numpy A >> n
ShrNone(v, n) == v
Shr(v, n) == v \div 2 ^ n

\* numpy a & b, bit by bit
RECURSIVE BitAnd(_, _)
BitAnd(a, b) ==
    IF a = 0 \/ b = 0 THEN 0
    ELSE (a % 2) * (b % 2) + 2 * BitAnd(a \div 2, b \div 2)

\* line 413: --calc="((A >> 1) & 3) == 0" written as --type=Byte: True is 1,
\* False is 0, which --NoDataValue=0 makes no-data
ClearskyCalc(v) == IF BitAnd(Shr(v, 1), 3) = 0 THEN 1 ELSE 0

\* postprocess called on a mosaic directory that holds the QAI mosaic of
\* some tiles (the mask commands are built from the QAI files alone)
InitMask ==
    /\ ppc = "start"
    /\ \E present \in SUBSET Tiles \ {{}} :
          /\ fs = {InMosaic(QaiVrt(t)) : t \in present}
          /\ qaiSum = [t \in Tiles |-> IF t \in present THEN 1 ELSE 0]
    /\ bandDesc = EmptyFn
    /\ save_qai = FALSE
    /\ PpLists
    /\ qai_value = 0
    /\ mask_value = 0
    /\ mkpc = "waiting"

\* a task of the mask batch evaluates the expression of its command on a
\* pixel of its input
EvalMask ==
    /\ ppc = "maskpool"
    /\ mkpc = "waiting"
    /\ \E k \in pending, v \in FlagValues :
          /\ clearsky_cmd_list[k].calc = "((A >> 1) & 3) == 0"
          /\ qai_value' = v
          /\ mask_value' = ClearskyCalc(v)
    /\ mkpc' = "evaluated"
    /\ UNCHANGED <<dlvars, ppvars, ixvars, mnvars, fdvars, swvars, cfvars>>

InitMaskSpec ==
    InitMask /\ DlIdle /\ IxIdle /\ MnIdle /\ FdIdle /\ SwIdle /\ CfIdle

NextMask ==
    \/ Clip
    \/ BuildMasks
    \/ EvalMask

SpecMask == InitMaskSpec /\ [][NextMask]_vars

\* ================================================================ claims
ScanRaised == raisedOn # {}

\* C1: for max_tries >= 1, download_and_extract starts at most max_tries
\* rounds, and starts no round after the first round whose scan returned an
\* empty corrupt list.
C1_BoundedRounds ==
    max_tries >= 1 =>
        /\ rounds <= max_tries
        /\ emptyAt # 0 => rounds = emptyAt

C1_Witness ==
    /\ max_tries = MaxTries
    /\ pc = "done"
    /\ rounds = max_tries
    /\ emptyAt = 0

C3_BadZipNeverUnpacked ==
    \A f \in Names :
        events[f] = "testzip_bad" =>
            /\ f \notin unpackArgs
            /\ InSeq(f, corrupt_files)
            /\ pc = "scanned" => dir[f].kind = "none"

C3_Witness ==
    /\ pc = "scanned"
    /\ \E f \in Names : events[f] = "testzip_bad"

\* C4: when unpacking a .tar.gz fails, after the scan the archive is gone, its
\* extraction subdirectory does not exist and the path is in the corrupt list.
C4_FailedTarLeavesNothing ==
    \A f \in Names :
        (pc = "scanned" /\ EndsWith(f, <<"tar", "gz">>) /\ events[f] = "unpack_failed") =>
            /\ dir[f].kind = "none"
            /\ dir[Split0(f)].kind = "none"
            /\ InSeq(f, corrupt_files)

C4_Witness ==
    /\ pc = "scanned"
    /\ rounds = 2
    /\ \E f \in Names : EndsWith(f, <<"tar", "gz">>) /\ events[f] = "unpack_failed"

C6_ExhaustionReported ==
    (pc = "done" /\ corrupt_files # <<>>) =>
        /\ count = max_tries
        /\ "excluded_permanently" \in log

\* C7 as stated: the result of download_and_extract is the list of corrupt
\* paths remaining after the last round.
C7_ResultIsCorruptList ==
    pc = "done" => result = Returned(corrupt_files)

\* C7 amended: download_and_extract returns no value (None); the corrupt list
\* of the last round stays in its local variable, which at the end is empty
\* exactly when the last round ended with zero corrupt paths and otherwise
\* holds the corrupt paths of round max_tries.
C7_ResultIsNone ==
    pc = "done" =>
        /\ result = NoneValue
        /\ (corrupt_files = <<>>) <=> (emptyAt = rounds)
        /\ corrupt_files # <<>> => (rounds = max_tries /\ count = max_tries)

C7_Witness ==
    /\ pc = "done"
    /\ corrupt_files # <<>>
    /\ rounds = MaxTries

\* C8: if the search or download adapter raises, download_and_extract raises:
\* no scan runs in that round, no later family is downloaded and no further
\* round starts.
C8_AdapterErrorIsFatal ==
    adapterError =>
        /\ pc = "raised"
        /\ Counters = errAt
        /\ scans = rounds - 1

C8_Witness ==
    /\ adapterError
    /\ errAt.prod = 1
    /\ rounds = 2

\* --------------------------------------------------- postprocess claims
Composites == {q \in fs : /\ q.dirn = "target"
                           /\ EndsWithTok(q.name, <<"BOA", "_", "clearsky", ".tif">>)
                           /\ \E t \in Tiles : StartsWith(q.name, t)}
ClippedBoaOf(t) == InMosaic(t \o <<"BOA", "_", "clipped", ".vrt">>)
MaskOf(t) == InMosaic(t \o <<"clearsky", ".tif">>)
EmptyMaskTiles == {t \in Tiles : MaskOf(t) \in DOMAIN sums /\ sums[MaskOf(t)] = 0}

\* C9: for a tile whose clear-sky mask has checksum 0, postprocess writes
\* nothing derived from it to the output directory (no mask copy, no
\* composite, no QAI raster), schedules no composite command for it, and a
\* following calculate has no input from it.
C9_EmptyMaskTileExcluded ==
    \A t \in EmptyMaskTiles :
        /\ \A q \in fs : q.dirn \in {"target", "indices"} => ~StartsWith(q.name, t)
        /\ \A k \in 1 .. Len(cloudfree_parallel_list) :
              /\ ~StartsWith(cloudfree_parallel_list[k].A.name, t)
              /\ ~StartsWith(cloudfree_parallel_list[k].B.name, t)
              /\ ~StartsWith(cloudfree_parallel_list[k].outfile.name, t)
        /\ \A k \in 1 .. Len(boa_input_output) : ~StartsWith(boa_input_output[k][1].name, t)
        /\ \A k \in 1 .. Len(indices_cmd_list) :
              /\ ~StartsWith(indices_cmd_list[k].A.name, t)
              /\ ~StartsWith(indices_cmd_list[k].B.name, t)

C9_Witness ==
    /\ ppc = "calcdone"
    /\ save_qai
    /\ \E t \in EmptyMaskTiles : InMosaic(BoaVrt(t)) \in fs
    /\ Composites # {}
    /\ indices_cmd_list # <<>>

\* C10: after postprocess has returned, band i of every composite has the
\* description of band i of the clipped surface-reflectance raster of the
\* composite's own tile, while the composite as written by the raster-algebra
\* task had no descriptions.
C10_DescriptionsRepaired ==
    /\ ppc \in {"ppdone", "calcdone", "calcraised", "initraised"} =>
          \A q \in Composites : \A b \in 1 .. NumBands :
              /\ bandDesc[q][b] = bandDesc[ClippedBoaOf(TileOf(q.name))][b]
              /\ bandDesc[q][b] = Desc(TileOf(q.name), b)
    /\ ppc \in {"comppool", "repair"} =>
          \A q \in Composites : bandDesc[q] = BlankDesc

C10_Witness ==
    /\ ppc = "ppdone"
    /\ Cardinality(Composites) >= 2

\* C11: whenever postprocess finds no BOA.vrt and no QAI.vrt file in the
\* mosaic directory (the directory empty or holding only other files), it
\* raises, and it has then clipped, masked and composited nothing.
C11_NoMosaicOutputsIsFatal ==
    ({f \in MosaicListing : IsMosaicOutput(f)} = {} /\ ppc \notin {"idle", "start"})
        => ppc = "ppraised"

\* ------------------------------------------------------- indices claims
Recognised(n) == ContainsTok(n, <<"SEN2">>) \/ ContainsTok(n, <<"LND">>)

\* C13: constructing CreateIndices with a name that is no key of INDICES
\* raises before any file-system operation: the step that raises has neither
\* created the output directory nor read the input directory.
C13_UnsupportedIndexNoFileIO ==
    [][ppc' = "initraised" =>
          (outdir_exists' = outdir_exists /\ indir_listed' = FALSE)]_vars

\* C16: calculate schedules no invocation and writes no index output for a
\* BOA_clearsky file that has neither the SEN2 nor the LND marker, and does
\* not raise because of it, wherever the file stands in the listing.
C16_UnrecognisedSkipped ==
    /\ ppc # "calcraised"
    /\ \A k \in 1 .. Len(indices_cmd_list) : Recognised(indices_cmd_list[k].A.name)
    /\ \A q \in fs : q.dirn = "indices" => Recognised(q.name)

\* C17: every invocation calculate schedules for a recognised composite
\* reads bands A and B, the pair INDICES registers for the index and the
\* file's own sensor family (NDVI: 4/8 for Sentinel-2, 3/5 for Landsat),
\* from that same file, whatever precedes it in the listing, and writes to
\* the file's name with BOA_clearsky replaced by the index name.
C17_OwnSensorBands ==
    \A k \in 1 .. Len(indices_cmd_list) :
        LET c == indices_cmd_list[k]
            n == c.A.name
            sen2 == ContainsTok(n, <<"SEN2">>)
        IN Recognised(n) =>
              /\ [A |-> c.a_band, B |-> c.b_band]
                    = (IF sen2 THEN INDICES[index].Sentinel2 ELSE INDICES[index].LANDSAT)
              /\ index = "NDVI" =>
                    <<c.a_band, c.b_band>> = (IF sen2 THEN <<4, 8>> ELSE <<3, 5>>)
              /\ c.A = InTarget(n) /\ c.B = c.A
              /\ c.outfile = InIndices(TileOf(n) \o <<index, ".tif">>)

C17_Witness ==
    /\ ppc = "calcdone"
    /\ index = "NDVI"
    /\ Len(indices_cmd_list) = 3
    /\ ContainsTok(indices_cmd_list[1].A.name, <<"SEN2">>)
    /\ indices_cmd_list[2].A.name = ForeignComposite
    /\ ContainsTok(indices_cmd_list[3].A.name, <<"LND">>)

\* ---------------------------------------------------------- main claims
HasUnsupported ==
    /\ ~indices_list.none
    /\ \E k \in 1 .. Len(indices_list.value) : indices_list.value[k] \notin DOMAIN INDICES

ConflictAnyTwo ==
    \/ download_only /\ force_only
    \/ download_only /\ indices_only
    \/ force_only /\ indices_only

StageNo(st) ==
    CASE st = "acquisition" -> 1
      [] st = "correction" -> 2
      [] st = "postprocessing" -> 3
      [] st = "indices" -> 4

IsStart(e) == e.ev = "start"
Started == SelectSeq(trace, IsStart)

\* C12: every external-tool invocation (force-parameter, force-level2,
\* force-mosaic, each gdal_calc.py batch) whose stderr has an error marker
\* ends the run there: it is the last invocation and main has raised; and no
\* invocation is made twice.
C12_ToolErrorIsFatal ==
    /\ \A k \in 1 .. Len(calls) :
          calls[k].err => (k = Len(calls) /\ mpc = "raised")
    /\ \A j, k \in 1 .. Len(calls) :
          j < k => <<calls[j].tool, calls[j].item>> # <<calls[k].tool, calls[k].item>>

\* C14: when indices_list holds a name that is not in INDICES, main raises
\* before any stage has started: no download, no FORCE invocation, no
\* postprocessing and no index computation ever starts, and the run does not
\* finish.
C14_UnsupportedIndexFailsFirst ==
    HasUnsupported =>
        /\ \A k \in 1 .. Len(trace) :
              trace[k].stage \notin {"acquisition", "correction", "postprocessing"}
        /\ calls = <<>>
        /\ mpc # "finished"

\* C15: any two of download_only, force_only, indices_only being true makes
\* main raise before any stage starts, and no run finishes without having
\* run a stage.
C15_ConflictingFlagsRejected ==
    /\ ConflictAnyTwo => (trace = <<>> /\ mpc \in {"config", "raised"})
    /\ mpc = "finished" => trace # <<>>

\* C18: the stages run in the order acquisition, correction and mosaic,
\* postprocessing, index derivation, each started only after the one before
\* has returned and none after one has raised; force_only keeps the
\* acquisition from running, download_only everything after it,
\* indices_only everything but the index derivation; and a run with all
\* three flags false that finishes has run all four.
C18_StagesInOrder ==
    /\ \A k \in 1 .. Len(trace) :
          IF trace[k].ev = "start"
          THEN k < Len(trace) =>
                  /\ trace[k + 1].stage = trace[k].stage
                  /\ trace[k + 1].ev \in {"return", "raise"}
          ELSE /\ k > 1 /\ trace[k - 1] = Ev(trace[k].stage, "start")
               /\ trace[k].ev = "raise" => k = Len(trace)
    /\ \A j, k \in 1 .. Len(Started) :
          j < k => StageNo(Started[j].stage) < StageNo(Started[k].stage)
    /\ force_only => \A k \in 1 .. Len(trace) : trace[k].stage # "acquisition"
    /\ download_only => \A k \in 1 .. Len(trace) : trace[k].stage = "acquisition"
    /\ indices_only => \A k \in 1 .. Len(trace) : trace[k].stage = "indices"
    /\ (mpc = "finished" /\ ~download_only /\ ~force_only /\ ~indices_only)
          => trace = <<Ev("acquisition", "start"), Ev("acquisition", "return"),
                      Ev("correction", "start"), Ev("correction", "return"),
                      Ev("postprocessing", "start"), Ev("postprocessing", "return"),
                      Ev("indices", "start"), Ev("indices", "return")>>

C18_Witness ==
    /\ mpc = "finished"
    /\ ~download_only /\ ~force_only /\ ~indices_only
    /\ Len(trace) = 8
    /\ Len(calls) >= 4

\* C19: the final output directory exists in every state of a run, whatever
\* the configuration: neither cleanup nor the clearing of the download
\* directory removes it.
C19_OutputDirKept ==
    mpc # "idle" => DirEntry(OutputDir(layout)) \in mfs

\* ------------------------------------------------- working-directory claim
\* C20: two runs that construct ForceProcess with the same temp_dir never
\* both come out of the constructor with the same force_dir, also when they
\* read the clock within the same second: a run gets a directory of its own
\* or fails.
C20_ForceDirNotShared ==
    \A r1, r2 \in Runs :
        (r1 # r2 /\ rpc[r1] = "done" /\ rpc[r2] = "done")
            => now_time_str[r1] # now_time_str[r2]

\* C21: when clear_download is true and main has finished, the download
\* directory holds no entry the queue builder takes for a scene, no queue
\* file and no .downloaded record, be the entry a directory or a file and
\* whatever the working directory is.
C21_DownloadDirCleared ==
    (mpc = "finished" /\ clear_download) =>
        \A e \in Entries(mfs, DownloadDir(layout)) :
            Head(e.p[Len(e.p)]) \notin QueuePrefixes \cup {"queue", ".downloaded"}

\* --------------------------------------------------------- batch claims
AllWritten(cmds) == \A k \in 1 .. Len(cmds) : cmds[k].outfile \in fs

\* C22: no mask checksum is read before every task of the mask batch has
\* finished, and no band description is copied onto a composite before
\* every task of the composite batch has finished, whatever order the tasks
\* finish in.
C22_BatchCompleteBeforeNextStage ==
    /\ ppc = "filter" =>
          /\ pending = {}
          /\ AllWritten(clearsky_cmd_list)
          /\ \A k \in 1 .. Len(clearsky_files) : clearsky_files[k] \in DOMAIN sums
    /\ (ppc = "repair" \/ \E q \in Composites : bandDesc[q] # BlankDesc) =>
          /\ pending = {}
          /\ AllWritten(cloudfree_parallel_list)

C22_Witness ==
    /\ ppc = "ppdone"
    /\ Len(clearsky_cmd_list) >= 2
    /\ Len(cloudfree_parallel_list) >= 2
    /\ \A q \in Composites : bandDesc[q] # BlankDesc

Inputs(cmd) == {cmd.A} \cup (IF "B" \in DOMAIN cmd THEN {cmd.B} ELSE {})
Disjoint(cmds) ==
    \A j, k \in 1 .. Len(cmds) :
        /\ j # k => cmds[j].outfile # cmds[k].outfile
        /\ cmds[j].outfile \notin Inputs(cmds[k])

\* C23: in each batch handed to the pool (masks, composites, index
\* products) no two tasks write the same path and no task writes a path
\* another task of the batch reads.
C23_BatchPathsDisjoint ==
    /\ Disjoint(clearsky_cmd_list)
    /\ Disjoint(cloudfree_parallel_list)
    /\ Disjoint(indices_cmd_list)

C23_Witness ==
    /\ ppc = "calcdone"
    /\ Len(clearsky_cmd_list) >= 2
    /\ Len(cloudfree_parallel_list) >= 2
    /\ Len(indices_cmd_list) >= 3

\* C24: a valid .SAFE directory (its contents can be listed) met by the scan of
\* extract_and_delete_tar_gz_files is not recorded as corrupt, is left in
\* place, and the scan does not raise on it.
C24_ValidSafeDirAccepted ==
    \A f \in Names :
        events[f] = "listed" =>
            /\ ~InSeq(f, corrupt_files)
            /\ dir[f] = Dir("ok")
            /\ f \notin raisedOn
            /\ pc # "raised"

\* C25: the extraction directory of a Landsat scene, once present after a
\* round of download_and_extract, is present after every later step, also
\* when a later round scans a new archive of the scene that fails to unpack.
C25_ExtractedSceneStays ==
    [][\A s \in LandsatStems :
          dir[PlainName(s)].kind = "dir" => dir'[PlainName(s)].kind = "dir"]_vars

\* C26: download_and_extract terminates for every max_tries: whenever a round
\* has ended and the loop is still running, the number of counted rounds is
\* below max_tries, so that the count reaches max_tries after finitely many
\* rounds with corrupt paths.
C26_CountBelowMaxTries ==
    (pc = "looptest" /\ run_download /\ count >= 1) => count < max_tries

\* the configuration lists no indices: the key is absent or the list is empty
NoIndices == indices_list.none \/ indices_list.value = <<>>

\* C28: with no index listed (indices_list absent or empty) and no *_only
\* flag set, the indices stage of main never raises and no index is computed.
C28_NoIndicesIsOptional ==
    (NoIndices /\ ~download_only /\ ~force_only /\ ~indices_only) =>
        /\ \A k \in 1 .. Len(trace) : trace[k] # Ev("indices", "raise")
        /\ \A k \in 1 .. Len(calls) : calls[k].tool # "gdal_calc.py index"

\* C29: every invocation scheduled by calculate has as its --calc expression
\* the normalized-difference formula in double quotes and nothing else.
C29_CalcIsFormulaInQuotes ==
    \A k \in 1 .. Len(indices_cmd_list) :
        indices_cmd_list[k].calc = <<"\"", NormDiff, "\"">>

\* C27: whatever count the search reports, the list passed to download_all
\* has every matching product exactly once.
C27_EveryProductOnce ==
    spc = "download_all" =>
        /\ Len(download_all_arg) = total_count
        /\ \A p \in 1 .. total_count :
              Cardinality({k \in 1 .. Len(download_all_arg) : download_all_arg[k] = p}) = 1

\* a count that is a multiple of the page size: a last, empty page is searched
C27_Witness ==
    /\ spc = "download_all"
    /\ total_count = 2 * items_per_page
    /\ Len(total_search_results) = 3
    /\ total_search_results[3] = <<>>

\* the names create_force_level2_config_file sets
SetKeys == {l[1] : l \in Range(ReplaceLines(cloud_buffer, n_procs))}

\* the value the caller configured for key
Configured(key) ==
    LET l == CHOOSE x \in Range(ReplaceLines(cloud_buffer, n_procs)) : x[1] = key
    IN SubSeq(l, FirstSep(l) + 2, Len(l))

\* the line has the form KEY = value for a parameter that is set
HasForm(line) ==
    /\ Len(line) = 5
    /\ line[1] \in SetKeys
    /\ SubSeq(line, 2, 4) = <<" ", "=", " ">>

\* C30: in the parameter file written, every template line KEY = value of a
\* parameter that is set carries the configured value (cloud_buffer
\* included), and every other line is the template's line.
C30_ConfiguredValuesWritten ==
    cpc = "written" =>
        /\ Len(config_file) = Len(config_file_dummy)
        /\ \A k \in 1 .. Len(config_file_dummy) :
              LET t == config_file_dummy[k]
                  w == config_file[k]
              IN IF HasForm(t)
                 THEN /\ w # <<>>
                      /\ w[1] = t[1]
                      /\ FirstSep(w) # 0
                      /\ SubSeq(w, FirstSep(w) + 2, Len(w)) = Configured(t[1])
                 ELSE w = t

\* the positions of clearsky_files the loop of lines 430-483 has passed
\* without scheduling a composite: the mask has checksum 0
ExcludedPositions ==
    {k \in 1 .. Len(clearsky_files) :
        /\ ppc \in {"filter", "comppool", "repair", "ppdone"}
        /\ k < fi
        /\ ~ChecksumPositive(sums[clearsky_files[k]])}

\* C31: for every tile postprocess excludes because its clear-sky mask has
\* checksum 0, a printed message names a file of that tile; and the
\* exclusion raises nothing.
C31_SkippedTileReported ==
    \A k \in ExcludedPositions :
        /\ ppc # "ppraised"
        /\ \E m \in 1 .. Len(printed) :
              /\ printed[m].name # <<>>
              /\ TileOf(printed[m].name) = TileOf(clearsky_files[k].name)

\* bit k of v
Bit(v, k) == (v \div 2 ^ k) % 2

\* C32: the mask expression gives 1 exactly when bit 1 and bit 2 of the flag
\* value are both 0 and 0 otherwise, whatever bit 0 and the bits above bit 2
\* are; and the mask commands are one per clipped quality-flags file, in the
\* order of clipped_qai_files.
C32_MaskBitsAndOrder ==
    /\ mkpc = "evaluated" =>
          /\ mask_value \in {0, 1}
          /\ mask_value = 1 <=> (Bit(qai_value, 1) = 0 /\ Bit(qai_value, 2) = 0)
          /\ mask_value = ClearskyCalc(2 * Bit(qai_value, 1) + 4 * Bit(qai_value, 2))
    /\ ppc = "maskpool" =>
          /\ Len(clearsky_cmd_list) = Len(clipped_qai_files)
          /\ \A k \in 1 .. Len(clipped_qai_files) :
                /\ clearsky_cmd_list[k].A = clipped_qai_files[k]
                /\ clearsky_cmd_list[k].calc = "((A >> 1) & 3) == 0"

\* two mask commands, and a flag value with bits 1 and 2 clear and every
\* other bit set
C32_Witness ==
    /\ ppc = "maskpool"
    /\ Len(clearsky_cmd_list) = 2
    /\ mkpc = "evaluated"
    /\ qai_value = 2 ^ 16 - 1 - 6
    /\ mask_value = 1

====
